---------------------------- MODULE Spec2Model ----------------------------
(***************************************************************************)
(* State-machine model of the SurgScanVR inference back end                *)
(* (src/AI_Backend/inference_app): the prediction cache, the volume        *)
(* calculator, the mesh generator, the Unity TCP client and the            *)
(* orchestrating application.                                              *)
(*                                                                         *)
(* Six specifications share the module's variables:                        *)
(*   SpecCache  - PredictionCache driven by arbitrary save / clear calls   *)
(*   SpecVolume - VolumeCalculator.calculate on bounded label volumes      *)
(*   SpecMesh   - MeshGenerator.generate on bounded label volumes          *)
(*   SpecSend   - UnityClient.send, statement by statement                 *)
(*   Spec       - InferenceApp: UI events and the worker threads           *)
(*   SpecLive   - InferenceApp with every stage of a worker terminating    *)
(* A specification keeps the variables of the parts it does not drive at   *)
(* their idle values.  The claims checked against each specification       *)
(* follow it.                                                              *)
(***************************************************************************)
EXTENDS Integers, Sequences, FiniteSets, TLC

VARIABLES
    \* ---- the file system ----
    files,        \* paths of the mesh / label-volume files that exist
    index_file,   \* prediction_cache/cache_index.json
    \* ---- PredictionCache ----
    cache_data,   \* PredictionCache.cache_data: digest -> entry
    clock,        \* datetime.now(), as a tick count
    c_ops,        \* the last cache calls (observation only)
    \* ---- VolumeCalculator.calculate ----
    v_data,       \* nii.get_fdata(): voxel -> label
    v_spacing,    \* nii.header.get_zooms()[:3], in mm
    v_result,     \* the returned dict, Nothing before the call
    \* ---- MeshGenerator.generate ----
    m_data,       \* nii.get_fdata() of the file at nifti_path
    m_good,       \* the labels whose surface can be extracted and exported
    m_io,         \* "ok", or the step outside the loop that fails
    m_pc,         \* "idle", "call", "returned" or "raised"
    m_result,     \* the returned list
    \* ---- UnityClient.send ----
    s_obj_files,  \* argument obj_files
    s_patient,    \* argument patient_data
    s_pc,         \* the statement send is at
    s_i,          \* position of the mesh loop in obj_files
    s_sock,       \* the socket: "none", "created", "connected", "closed"
    s_sent,       \* the bytes written to the connection so far
    s_out,        \* how the call ended
    s_exc,        \* the exception raised inside the try block, if any
    s_frames,     \* number of sendall calls that completed
    \* ---- InferenceApp ----
    model_folder,          \* tk.StringVar
    input_file,            \* tk.StringVar: "" or an image
    use_cache,             \* tk.BooleanVar
    is_processing,         \* the busy flag
    start_btn,             \* state of the Predict button
    cache,                 \* self.cache: None or the PredictionCache object
    engine_loaded,         \* self.engine is not None and self.engine.is_loaded
    current_volume_data,   \* Optional[Dict]
    current_obj_files,     \* Optional[List[Tuple[int, str]]]
    threads,               \* the _run_prediction worker threads, by start order
    runs,                  \* number of worker threads started
    events,                \* number of outside events so far
    delivery               \* the last Send to VR that started a send thread

cacheVars == <<files, index_file, cache_data, clock, c_ops>>
volVars == <<v_data, v_spacing, v_result>>
meshVars == <<m_data, m_good, m_io, m_pc, m_result>>

sendVars == <<s_obj_files, s_patient, s_pc, s_i, s_sock, s_sent, s_out, s_exc, s_frames>>

appVars == <<model_folder, input_file, use_cache, is_processing, start_btn, cache,
             engine_loaded, current_volume_data, current_obj_files, threads, runs,
             events, delivery>>

vars == <<files, index_file, cache_data, clock, c_ops, v_data, v_spacing, v_result,
          m_data, m_good, m_io, m_pc, m_result,
          s_obj_files, s_patient, s_pc, s_i, s_sock, s_sent, s_out, s_exc, s_frames,
          model_folder, input_file, use_cache, is_processing, start_btn, cache,
          engine_loaded, current_volume_data, current_obj_files, threads, runs,
          events, delivery>>

-----------------------------------------------------------------------------
(* Bounds of the model *)

\* longest mesh list handed to PredictionCache.save in SpecCache
MaxMeshes == 2
\* number of save calls of a behaviour of SpecCache
MaxSaves == 2
\* most non-background voxels of a label volume of SpecVolume
MaxLabelled == 2
\* largest voxel spacing, in mm, of a label volume of SpecVolume
MaxSpacing == 2
\* longest obj_files list handed to UnityClient.send in SpecSend
MaxAssets == 2
\* outside events of a behaviour of Spec: Predict clicks that start a worker,
\* Stop clicks while a worker is in flight, files removed behind the program's
\* back
MaxEvents == 3
\* outside events of a behaviour of SpecLive
MaxLiveEvents == 2

-----------------------------------------------------------------------------
(* Python values *)

None == "None"

\* an Optional[Dict]: Nothing is None, Some(d) is the dict d
Nothing == <<>>
Some(d) == <<d>>

\* dict.get(key, default)
DictGet(d, k, default) == IF k \in DOMAIN d THEN d[k] ELSE default

\* d[k] = v on a dict
DictSet(d, k, v) == (k :> v) @@ d

EmptyDict == [k \in {} |-> None]

\* the tuple (organ_label, obj_path); json turns it into a two-element list
PyPair(l, p) == [py |-> "tuple", label |-> l, path |-> p]

-----------------------------------------------------------------------------
(* The files of the model *)

\* the selectable input images, by stem: "a" is a.nii
Images == {"a", "b", "c"}

\* raw bytes of an image file; b.nii is a copy of a.nii
ImageBytes(img) == IF img = "c" THEN <<2, 7>> ELSE <<1, 7>>

\* os.path.join(output_dir, <stem>_pred.nii)
PredPath(img) == <<"pred", img>>

\* os.path.join(output_dir, "unity_assets", <stem>_pred_<organ>.obj)
ObjPath(img, label) == <<"obj", img, label>>

LIVER_LABEL == 8
TUMOR_LABEL == 9

-----------------------------------------------------------------------------
(* PredictionCache (cache.py) *)

ChunkSize == 4096

Min(a, b) == IF a < b THEN a ELSE b

\* hashlib.md5: update() appends to the message, hexdigest() is a digest of
\* the whole message.  The digest is taken collision-free on the model's
\* messages.
Md5Update(msg, chunk) == msg \o chunk
Md5HexDigest(msg) == <<"md5", msg>>

RECURSIVE HashChunks(_, _, _)
\* for chunk in iter(lambda: f.read(4096), b""): hash_md5.update(chunk)
HashChunks(bytes, pos, msg) ==
    IF pos > Len(bytes) THEN msg
    ELSE LET n == Min(ChunkSize, Len(bytes) - pos + 1)
         IN  HashChunks(bytes, pos + n, Md5Update(msg, SubSeq(bytes, pos, pos + n - 1)))

GetHashOfName(image_path) == Md5HexDigest(<<image_path>>)

\* PredictionCache._get_hash
GetHash(image_path) == Md5HexDigest(HashChunks(ImageBytes(image_path), 1, <<>>))

RECURSIVE AllExist(_, _, _)
\* the loop of is_cached over the entry's obj_files
AllExist(objs, i, disk) ==
    IF i > Len(objs) THEN TRUE
    ELSE IF objs[i].path \notin disk THEN FALSE
    ELSE AllExist(objs, i + 1, disk)

IsCachedFirstOnly(data, disk, image_path) ==
    LET key == GetHash(image_path) IN
    IF key \notin DOMAIN data THEN FALSE
    ELSE LET objs == DictGet(data[key], "obj_files", <<>>)
         IN  objs = <<>> \/ objs[1].path \in disk

IsCachedWithPrediction(data, disk, image_path) ==
    LET key == GetHash(image_path) IN
    IF key \notin DOMAIN data THEN FALSE
    ELSE /\ AllExist(DictGet(data[key], "obj_files", <<>>), 1, disk)
         /\ DictGet(data[key], "prediction_path", Nothing) \in disk

\* PredictionCache.is_cached
IsCached(data, disk, image_path) ==
    LET key == GetHash(image_path) IN
    IF key \notin DOMAIN data THEN FALSE
    ELSE AllExist(DictGet(data[key], "obj_files", <<>>), 1, disk)

\* PredictionCache.get
CacheGet(data, image_path) ==
    LET key == GetHash(image_path) IN
    IF key \in DOMAIN data THEN Some(data[key]) ELSE Nothing

\* json.dump then json.load of a value of the index: tuples come back as lists
JsonPair(p) == [p EXCEPT !.py = "list"]
JsonEntry(e) ==
    [k \in DOMAIN e |->
        IF k = "obj_files" THEN [i \in 1..Len(e[k]) |-> JsonPair(e[k][i])] ELSE e[k]]
JsonIndex(data) == [k \in DOMAIN data |-> JsonEntry(data[k])]

\* the index file's states
AbsentFile == [kind |-> "absent", data |-> EmptyDict]
JsonFile(data) == [kind |-> "json", data |-> JsonIndex(data)]

SavedDataNoOverwrite(data, image_path, result, now) ==
    DictSet(data, <<GetHash(image_path), now>>, DictSet(result, "timestamp", now))

\* cache_data after PredictionCache.save
SavedData(data, image_path, result, now) ==
    DictSet(data, GetHash(image_path), DictSet(result, "timestamp", now))

CacheSaveNewestOnly(image_path, result) ==
    /\ cache_data' = SavedData(cache_data, image_path, result, clock)
    /\ index_file' = JsonFile(SavedData(EmptyDict, image_path, result, clock))
    /\ clock' = clock + 1

\* PredictionCache.save
CacheSave(image_path, result) ==
    /\ cache_data' = SavedData(cache_data, image_path, result, clock)
    /\ index_file' = JsonFile(cache_data')
    /\ clock' = clock + 1

\* the paths an entry lists
ListedFiles(result) ==
    LET objs == DictGet(result, "obj_files", <<>>) IN {objs[i].path : i \in 1..Len(objs)}

CacheClearMemoryOnly ==
    /\ cache_data' = EmptyDict
    /\ UNCHANGED <<index_file, clock>>

\* PredictionCache.clear
CacheClear ==
    /\ cache_data' = EmptyDict
    /\ index_file' = JsonFile(EmptyDict)
    /\ UNCHANGED clock


-----------------------------------------------------------------------------
(* VolumeCalculator.calculate (volume.py)                                   *)
(* Volumes are carried in thousandths of a millilitre (1 = 0.001 ml = 1 mm3)*)
(* so that voxel_volume_ml and round(x, 2) are exact integer arithmetic.    *)

\* shape of the label volumes of the model
Shape == <<3, 2, 2>>
Voxels == (0..Shape[1]-1) \X (0..Shape[2]-1) \X (0..Shape[3]-1)

\* position of a voxel in the C-order scan of the array
Raster(v) == (v[1] * Shape[2] + v[2]) * Shape[3] + v[3]

Abs(n) == IF n < 0 THEN -n ELSE n

Adjacent26(u, v) ==
    /\ u # v
    /\ \A i \in 1..3 : Abs(u[i] - v[i]) <= 1

\* the default structuring element of scipy.ndimage.label: face neighbours
Adjacent(u, v) == Abs(u[1] - v[1]) + Abs(u[2] - v[2]) + Abs(u[3] - v[3]) = 1

RECURSIVE Grow(_, _)
\* the component of the mask that holds the voxels of S
Grow(S, mask) ==
    LET N == S \cup {u \in mask : \E w \in S : Adjacent(u, w)}
    IN  IF N = S THEN S ELSE Grow(N, mask)

RECURSIVE LabelFrom(_, _)
LabelFrom(rest, acc) ==
    IF rest = {} THEN acc
    ELSE LET first == CHOOSE v \in rest : \A u \in rest : Raster(v) <= Raster(u)
             comp  == Grow({first}, rest)
         IN  LabelFrom(rest \ comp, Append(acc, comp))

\* scipy.ndimage.label(mask): the components, numbered in scan order of
\* their first voxel; component i is the set of voxels labelled i
NdimageLabel(mask) == LabelFrom(mask, <<>>)

\* round(x, 2) of x thousandths: to the nearest hundredth, a tie to even
Round3(x) == x
Round2(x) ==
    LET q == x \div 10
        r == x % 10
    IN  IF r < 5 THEN 10 * q
        ELSE IF r > 5 THEN 10 * (q + 1)
        ELSE IF q % 2 = 0 THEN 10 * q ELSE 10 * (q + 1)

\* np.sum(data == label)
CountNe(data, label) == Cardinality({v \in DOMAIN data : data[v] # label})
CountEq(data, label) == Cardinality({v \in DOMAIN data : data[v] = label})

VoxelArea(spacing) == spacing[1] * spacing[2]

\* (spacing[0] * spacing[1] * spacing[2]) / 1000.0, in thousandths of a ml
VoxelVolume(spacing) == spacing[1] * spacing[2] * spacing[3]

RECURSIVE TumorLoopExact(_, _, _, _)
TumorLoopExact(comps, i, vv, result) ==
    IF i > Len(comps)
    THEN [result EXCEPT !.total_tumor_volume_ml = Round2(@)]
    ELSE LET tumor_voxels == Cardinality(comps[i])
             tumor_volume == Round2(tumor_voxels * vv)
         IN  TumorLoopExact(comps, i + 1, vv,
                [result EXCEPT
                    !.tumors = Append(@, [id |-> i, volume_ml |-> tumor_volume]),
                    !.total_tumor_volume_ml = @ + tumor_voxels * vv])

RECURSIVE TumorLoop(_, _, _, _)
\* for i in range(1, num_tumors + 1): ... ; then the final round of the total
TumorLoop(comps, i, vv, result) ==
    IF i > Len(comps)
    THEN [result EXCEPT !.total_tumor_volume_ml = Round2(@)]
    ELSE LET tumor_voxels == Cardinality(comps[i])
             tumor_volume == Round2(tumor_voxels * vv)
         IN  TumorLoop(comps, i + 1, vv,
                [result EXCEPT
                    !.tumors = Append(@, [id |-> i, volume_ml |-> tumor_volume]),
                    !.total_tumor_volume_ml = @ + tumor_volume])

\* VolumeCalculator.calculate on a loaded volume
Calculate(data, spacing, liver_label, tumor_label) ==
    LET vv == VoxelVolume(spacing)
        r0 == [liver_volume_ml |-> 0, tumor_count |-> 0, tumors |-> <<>>,
               total_tumor_volume_ml |-> 0]
        r1 == [r0 EXCEPT !.liver_volume_ml = Round2(CountEq(data, liver_label) * vv)]
        tumor_mask == {v \in DOMAIN data : data[v] = tumor_label}
    IN  IF Cardinality(tumor_mask) > 0
        THEN LET comps == NdimageLabel(tumor_mask)
             IN  TumorLoop(comps, 1, vv, [r1 EXCEPT !.tumor_count = Len(comps)])
        ELSE r1

-----------------------------------------------------------------------------
(* SpecVolume: calculate applied to every bounded label volume *)

\* the labels of the volumes: background, spleen, liver, tumor
VolLabels == {0, 1, LIVER_LABEL, TUMOR_LABEL}
\* the volumes with at most MaxLabelled voxels off the background
Volumes ==
    UNION {{[v \in Voxels |-> IF v \in S THEN f[v] ELSE 0] :
                f \in [S -> VolLabels \ {0}]} :
           S \in {T \in SUBSET Voxels : Cardinality(T) <= MaxLabelled}}
\* header zooms that are no physical voxel size: pixdim is read as stored
InvalidSpacings == {<<0, 1, 1>>, <<1, -1, 1>>, <<-2, -1, 0>>}
Spacings == ((1..MaxSpacing) \X (1..MaxSpacing) \X (1..MaxSpacing))
                \cup InvalidSpacings

Background == [v \in Voxels |-> 0]

VolIdle ==
    /\ v_data = Background
    /\ v_spacing = <<1, 1, 1>>
    /\ v_result = Nothing

VolInit ==
    /\ v_data \in Volumes
    /\ v_spacing \in Spacings
    /\ v_result = Nothing

-----------------------------------------------------------------------------
(* UnityClient.send (network.py) *)

\* bytes of a mesh file on disk
ObjBytes(path) == IF path[3] = LIVER_LABEL THEN <<118>> ELSE <<102, 10>>

\* json.dumps(patient_data, ensure_ascii=False) of {"n": <name>}: the text,
\* as code points; the name is kept as it is, not escaped to ASCII
JsonDumps(patient_data) ==
    <<123, 34, 110, 34, 58, 32, 34>> \o patient_data.n \o <<34, 125>>

RECURSIVE Utf8Encode(_)
\* str.encode('utf-8'), for code points below 2048
Utf8Encode(text) ==
    IF text = <<>> THEN <<>>
    ELSE LET c == Head(text)
         IN  (IF c < 128 THEN <<c>> ELSE <<192 + (c \div 64), 128 + (c % 64)>>)
             \o Utf8Encode(Tail(text))

\* json_bytes
JsonBytes(patient_data) == Utf8Encode(JsonDumps(patient_data))

\* struct.pack('!I', n) accepts 0 <= n < 2^32 and raises struct.error otherwise
PackOk(n) == n >= 0 /\ (n \div 65536) < 65536

PackLittleEndian(n) ==
    <<n % 256, (n \div 256) % 256, (n \div 65536) % 256, (n \div 16777216) % 256>>

\* struct.pack('!I', n): four bytes, most significant first
Pack(n) ==
    <<(n \div 16777216) % 256, (n \div 65536) % 256, (n \div 256) % 256, n % 256>>

CaughtOnlyRefused(exc) == exc = "ConnectionRefusedError"

\* the except clauses of send: ConnectionRefusedError, then Exception
Caught(exc) ==
    \/ exc = "ConnectionRefusedError"
    \/ exc \in {"OSError", "FileNotFoundError", "struct.error", "timeout"}

Running == [kind |-> "running", value |-> FALSE]
Return(v) == [kind |-> "return", value |-> v]
Raised == [kind |-> "raise", value |-> FALSE]

\* an exception inside the try block: both handlers log and return False
Raise(exc) ==
    /\ s_exc' = exc
    /\ s_pc' = "returned"
    /\ s_out' = IF Caught(exc) THEN Return(FALSE) ELSE Raised

\* sock.sendall(bytes): all of it is written, or the write fails part-way
SendAll(bytes, next_pc) ==
    \/ /\ s_sent' = s_sent \o bytes
       /\ s_frames' = s_frames + 1
       /\ s_pc' = next_pc
       /\ UNCHANGED <<s_out, s_exc>>
    \/ /\ \E k \in 0..(IF Len(bytes) = 0 THEN 0 ELSE Len(bytes) - 1) :
            s_sent' = s_sent \o SubSeq(bytes, 1, k)
       /\ Raise("OSError")
       /\ UNCHANGED s_frames

\* sock.sendall(struct.pack('!I', n))
SendPacked(n, next_pc) ==
    IF PackOk(n) THEN SendAll(Pack(n), next_pc)
    ELSE Raise("struct.error") /\ UNCHANGED <<s_sent, s_frames>>

\* socket.socket(...); settimeout; connect
SConnect ==
    /\ s_pc = "connect"
    /\ \/ /\ s_sock' = "connected"
          /\ s_pc' = "send_len"
          /\ UNCHANGED <<s_out, s_exc>>
       \/ /\ s_sock' = "created"
          /\ \E exc \in {"ConnectionRefusedError", "timeout"} : Raise(exc)
    /\ UNCHANGED <<s_obj_files, s_patient, s_i, s_sent, s_frames>>
    /\ UNCHANGED <<cacheVars, volVars, meshVars, appVars>>

\* sock.sendall(struct.pack('!I', len(json_bytes)))
SSendLen ==
    /\ s_pc = "send_len"
    /\ SendPacked(Len(JsonBytes(s_patient)), "send_json")
    /\ UNCHANGED <<s_obj_files, s_patient, s_i, s_sock>>
    /\ UNCHANGED <<cacheVars, volVars, meshVars, appVars>>

\* sock.sendall(json_bytes)
SSendJson ==
    /\ s_pc = "send_json"
    /\ SendAll(JsonBytes(s_patient), "send_count")
    /\ UNCHANGED <<s_obj_files, s_patient, s_i, s_sock>>
    /\ UNCHANGED <<cacheVars, volVars, meshVars, appVars>>

\* sock.sendall(struct.pack('!I', len(obj_files)))
SSendCount ==
    /\ s_pc = "send_count"
    /\ SendPacked(Len(s_obj_files), "loop")
    /\ UNCHANGED <<s_obj_files, s_patient, s_i, s_sock>>
    /\ UNCHANGED <<cacheVars, volVars, meshVars, appVars>>

\* for organ_label, obj_path in obj_files: sock.sendall(pack(organ_label))
SSendLabel ==
    /\ s_pc = "loop"
    /\ s_i <= Len(s_obj_files)
    /\ SendPacked(s_obj_files[s_i].label, "read")
    /\ UNCHANGED <<s_obj_files, s_patient, s_i, s_sock>>
    /\ UNCHANGED <<cacheVars, volVars, meshVars, appVars>>

\* with open(obj_path, 'rb') as f: data = f.read()
SReadFile ==
    /\ s_pc = "read"
    /\ IF s_obj_files[s_i].path \in files
       THEN s_pc' = "send_size" /\ UNCHANGED <<s_out, s_exc>>
       ELSE Raise("FileNotFoundError")
    /\ UNCHANGED <<s_obj_files, s_patient, s_i, s_sock, s_sent, s_frames>>
    /\ UNCHANGED <<cacheVars, volVars, meshVars, appVars>>

\* sock.sendall(struct.pack('!I', len(data)))
SSendSize ==
    /\ s_pc = "send_size"
    /\ SendPacked(Len(ObjBytes(s_obj_files[s_i].path)), "send_data")
    /\ UNCHANGED <<s_obj_files, s_patient, s_i, s_sock>>
    /\ UNCHANGED <<cacheVars, volVars, meshVars, appVars>>

\* sock.sendall(data); time.sleep(0.1); next asset
SSendData ==
    /\ s_pc = "send_data"
    /\ SendAll(ObjBytes(s_obj_files[s_i].path), "loop")
    /\ s_i' = IF s_pc' = "loop" THEN s_i + 1 ELSE s_i
    /\ UNCHANGED <<s_obj_files, s_patient, s_sock>>
    /\ UNCHANGED <<cacheVars, volVars, meshVars, appVars>>

\* sock.close(); return True
SClose ==
    /\ s_pc = "loop"
    /\ s_i > Len(s_obj_files)
    /\ s_sock' = "closed"
    /\ s_pc' = "returned"
    /\ s_out' = Return(TRUE)
    /\ UNCHANGED <<s_obj_files, s_patient, s_i, s_sent, s_exc, s_frames>>
    /\ UNCHANGED <<cacheVars, volVars, meshVars, appVars>>

\* the arguments of the calls of SpecSend
SendLabels == {LIVER_LABEL, TUMOR_LABEL, -1}
SendPairs == {PyPair(l, ObjPath("a", o)) : l \in SendLabels, o \in {LIVER_LABEL, TUMOR_LABEL}}
SendLists == UNION {[1..n -> SendPairs] : n \in 0..MaxAssets}
Payloads == {[n |-> <<>>], [n |-> <<233>>]}

SendStart(obj_files, patient_data) ==
    /\ s_obj_files = obj_files
    /\ s_patient = patient_data
    /\ s_pc = "connect"
    /\ s_i = 1
    /\ s_sock = "none"
    /\ s_sent = <<>>
    /\ s_out = Running
    /\ s_exc = None
    /\ s_frames = 0

SendIdle ==
    /\ s_obj_files = <<>>
    /\ s_patient = [n |-> <<>>]
    /\ s_pc = "idle"
    /\ s_i = 1
    /\ s_sock = "none"
    /\ s_sent = <<>>
    /\ s_out = Running
    /\ s_exc = None
    /\ s_frames = 0

-----------------------------------------------------------------------------
(* InferenceApp (app.py): the event handlers and the worker thread *)

\* the label volume the predictor writes for an image: a function of the
\* image's bytes (a.nii and b.nii give the same volume)
PredictedVolume(img) ==
    IF ImageBytes(img) = ImageBytes("a")
    THEN [v \in Voxels |->
            IF v \in {<<0, 0, 0>>, <<0, 0, 1>>} THEN LIVER_LABEL
            ELSE IF v = <<1, 1, 1>> THEN TUMOR_LABEL ELSE 0]
    ELSE [v \in Voxels |-> IF v = <<0, 0, 0>> THEN LIVER_LABEL ELSE 0]

\* the voxel spacing of the predicted volumes, in mm
PredictedSpacing == <<5, 5, 4>>

\* VolumeCalculator.calculate(path) on the label volume stored at path
Metrics(path) ==
    Calculate(PredictedVolume(path[2]), PredictedSpacing, LIVER_LABEL, TUMOR_LABEL)

\* labels = np.unique(data); labels = labels[labels != 0].  get_fdata gives
\* floats that hold the file's integer labels, so int(label) is that integer
Labels(data) == {data[v] : v \in DOMAIN data} \ {0}

MeshLabels(path) == Labels(PredictedVolume(path[2]))

RECURSIVE MeshLoopAbort(_, _, _)
MeshLoopAbort(labels, good, path) ==
    IF labels = {} THEN <<>>
    ELSE LET label == CHOOSE l \in labels : \A m \in labels : l <= m
         IN  IF label \in good
             THEN <<PyPair(label, ObjPath(path[2], label))>>
                    \o MeshLoopAbort(labels \ {label}, good, path)
             ELSE <<>>

RECURSIVE MeshLoopDescending(_, _, _)
MeshLoopDescending(labels, good, path) ==
    IF labels = {} THEN <<>>
    ELSE LET label == CHOOSE l \in labels : \A m \in labels : l >= m
             rest  == MeshLoopDescending(labels \ {label}, good, path)
         IN  IF label \in good
             THEN <<PyPair(label, ObjPath(path[2], label))>> \o rest
             ELSE rest

RECURSIVE MeshLoop(_, _, _)
\* the per-label loop of MeshGenerator.generate, labels ascending; the labels
\* of good are those whose extraction and export succeed
MeshLoop(labels, good, path) ==
    IF labels = {} THEN <<>>
    ELSE LET label == CHOOSE l \in labels : \A m \in labels : l <= m
             rest  == MeshLoop(labels \ {label}, good, path)
         IN  IF label \in good
             THEN <<PyPair(label, ObjPath(path[2], label))>> \o rest
             ELSE rest

\* no generate call is being observed
MeshIdle ==
    /\ m_data = Background
    /\ m_good = {}
    /\ m_io = "ok"
    /\ m_pc = "idle"
    /\ m_result = <<>>

\* the worker thread's record
\* pc, cached and pred_path are the thread's position and locals; the other
\* fields observe it: whether it constructed the cache, whether its cache
\* check hit or missed on an entry that is no longer valid (stale) and for
\* which image, which collaborators it called, whether Stop
\* was clicked while it ran and whether it entered a pipeline stage after
\* that, whether it raised and the call that raised
IdleThread == [pc |-> "idle", cached |-> Nothing, pred_path |-> Nothing,
               tried_load |-> FALSE, hit |-> FALSE, image |-> "", stale |-> FALSE,
               calls |-> {}, error |-> "",
               stopped |-> FALSE, ran_after_stop |-> FALSE, failed |-> FALSE]

InFlight(t) == threads[t].pc \notin {"idle", "finished"}

EnterWithoutFinish(th, pc) ==
    [th EXCEPT !.pc = IF pc = "HitFinish" THEN "HitReturn" ELSE pc]

\* the thread moves to stage pc
Enter(th, pc) ==
    [th EXCEPT !.pc = pc,
               !.ran_after_stop = @ \/ (th.stopped /\ pc \in
                    {"Predicting", "Analyzing", "MeshBuilding", "CacheWrite"})]

FailQuietly(th) == [th EXCEPT !.failed = TRUE]

\* an exception reaches the except clause of _run_prediction
Fail(th) == [th EXCEPT !.pc = "Failed", !.failed = TRUE]

GoOnWith(th, e) == [th EXCEPT !.failed = TRUE, !.error = e]

\* the exception e raised by the named call reaches the except clause, which
\* reports it
FailWith(th, e) == [Fail(th) EXCEPT !.error = e]

\* a later Predict click or a worker in flight can still read the UI variables
UiRead == events < MaxEvents \/ \E t \in 1..MaxEvents : InFlight(t)

\* _browse_model
BrowseModel ==
    /\ model_folder = ""
    /\ model_folder' = "model"
    /\ UNCHANGED <<input_file, use_cache, is_processing, start_btn, cache,
                   engine_loaded, current_volume_data, current_obj_files, threads,
                   runs, events, delivery>>
    /\ UNCHANGED <<cacheVars, volVars, meshVars, sendVars>>

\* the image files the user picks from
AppImages == {"a", "c"}

\* _browse_image
BrowseImage(img) ==
    /\ UiRead
    /\ input_file # img
    /\ input_file' = img
    /\ UNCHANGED <<model_folder, use_cache, is_processing, start_btn, cache,
                   engine_loaded, current_volume_data, current_obj_files, threads,
                   runs, events, delivery>>
    /\ UNCHANGED <<cacheVars, volVars, meshVars, sendVars>>

\* the "Use Cache" check button
ToggleCache ==
    /\ UiRead
    /\ use_cache' = ~use_cache
    /\ UNCHANGED <<model_folder, input_file, is_processing, start_btn, cache,
                   engine_loaded, current_volume_data, current_obj_files, threads,
                   runs, events, delivery>>
    /\ UNCHANGED <<cacheVars, volVars, meshVars, sendVars>>

\* _on_predict, past its three early returns; a disabled button calls nothing
OnPredict ==
    /\ start_btn = "normal"
    /\ ~is_processing
    /\ model_folder # ""
    /\ input_file # ""
    /\ events < MaxEvents
    /\ events' = events + 1
    /\ is_processing' = TRUE
    /\ start_btn' = "disabled"
    /\ runs' = runs + 1
    /\ threads' = [threads EXCEPT ![runs + 1] = [IdleThread EXCEPT !.pc = "CacheCheck"]]
    /\ UNCHANGED <<model_folder, input_file, use_cache, cache, engine_loaded,
                   current_volume_data, current_obj_files, delivery>>
    /\ UNCHANGED <<cacheVars, volVars, meshVars, sendVars>>

\* _on_send_vr, past its two early returns: a thread running _send_to_unity
\* is started, which reads the current metrics and mesh list; stages are the
\* positions of the _run_prediction workers in flight at that moment
OnSendVr ==
    /\ current_obj_files # Nothing
    /\ current_obj_files[1] # <<>>
    /\ current_volume_data # Nothing
    /\ events < MaxEvents
    /\ events' = events + 1
    /\ delivery' = Some([obj_files |-> current_obj_files[1],
                         analysis |-> current_volume_data[1],
                         stages |-> {threads[t].pc : t \in {u \in 1..MaxEvents : InFlight(u)}}])
    /\ UNCHANGED <<model_folder, input_file, use_cache, is_processing, start_btn, cache,
                   engine_loaded, current_volume_data, current_obj_files, threads, runs>>
    /\ UNCHANGED <<cacheVars, volVars, meshVars, sendVars>>

\* _on_stop: is_processing = False; _finish().  Nothing is said to the worker.
OnStop ==
    /\ \E t \in 1..MaxEvents : InFlight(t)
    /\ events < MaxEvents
    /\ events' = events + 1
    /\ is_processing' = FALSE
    /\ start_btn' = "normal"
    /\ threads' = [t \in 1..MaxEvents |->
                     IF InFlight(t) THEN [threads[t] EXCEPT !.stopped = TRUE]
                     ELSE threads[t]]
    /\ UNCHANGED <<model_folder, input_file, use_cache, cache, engine_loaded,
                   current_volume_data, current_obj_files, runs, delivery>>
    /\ UNCHANGED <<cacheVars, volVars, meshVars, sendVars>>

LoadIndexLenient(file) ==
    IF file.kind = "json" THEN Some(file.data) ELSE Some(EmptyDict)

\* PredictionCache._initialize: an absent index file leaves cache_data = {},
\* json.load of a file that is not JSON raises (Nothing)
LoadIndex(file) ==
    IF file.kind = "absent" THEN Some(EmptyDict)
    ELSE IF file.kind = "json" THEN Some(file.data)
    ELSE Nothing

\* _run_prediction up to the branch: the cache is built on first use and asked
\* for the image
WCacheCheck(t) ==
    /\ threads[t].pc = "CacheCheck"
    /\ IF ~use_cache
       THEN /\ threads' = [threads EXCEPT ![t] = Enter(@, "Predicting")]
            /\ UNCHANGED <<cache, cache_data>>
       ELSE IF cache = None /\ LoadIndex(index_file) = Nothing
       THEN \* json.load raises in PredictionCache.__init__
            /\ threads' = [threads EXCEPT ![t] =
                             [FailWith(@, "json.load") EXCEPT !.tried_load = TRUE]]
            /\ UNCHANGED <<cache, cache_data>>
       ELSE /\ cache' = "PredictionCache"
            /\ cache_data' = IF cache = None THEN LoadIndex(index_file)[1]
                                             ELSE cache_data
            /\ threads' = [threads EXCEPT ![t] =
                 IF IsCached(cache_data', files, input_file)
                 THEN [Enter(@, "CacheHit") EXCEPT !.tried_load = (cache = None),
                                                   !.hit = TRUE,
                                                   !.image = input_file]
                 ELSE [Enter(@, "Predicting") EXCEPT
                          !.tried_load = (cache = None),
                          !.image = IF GetHash(input_file) \in DOMAIN cache_data'
                                    THEN input_file ELSE "",
                          !.stale = (GetHash(input_file) \in DOMAIN cache_data')]]
    /\ UNCHANGED <<model_folder, input_file, use_cache, is_processing, start_btn,
                   engine_loaded, current_volume_data, current_obj_files, runs,
                   events, delivery>>
    /\ UNCHANGED <<files, index_file, clock, c_ops, volVars, meshVars, sendVars>>

\* _handle_cached_result: cached = self.cache.get(...) and the metrics
WHitLoad(t) ==
    /\ threads[t].pc = "CacheHit"
    /\ LET cached == CacheGet(cache_data, input_file) IN
       IF cached = Nothing
       THEN \* cached.get on None
            /\ threads' = [threads EXCEPT ![t] = FailWith(@, "cached.get")]
            /\ UNCHANGED current_volume_data
       ELSE LET pp == DictGet(cached[1], "prediction_path", Nothing) IN
            IF pp # Nothing /\ pp \in files
            THEN \/ /\ current_volume_data' = Some(Metrics(pp))
                    /\ threads' = [threads EXCEPT ![t] =
                                     [Enter(@, "HitAssign") EXCEPT !.cached = cached]]
                 \/ \* the file cannot be read as a volume
                    /\ threads' = [threads EXCEPT ![t] = FailWith(@, "calculate")]
                    /\ UNCHANGED current_volume_data
            ELSE /\ threads' = [threads EXCEPT ![t] =
                                  [Enter(@, "HitAssign") EXCEPT !.cached = cached]]
                 /\ UNCHANGED current_volume_data
    /\ UNCHANGED <<model_folder, input_file, use_cache, is_processing, start_btn, cache,
                   engine_loaded, current_obj_files, runs, events, delivery>>
    /\ UNCHANGED <<cacheVars, volVars, meshVars, sendVars>>

\* self.current_obj_files = cached["obj_files"]
WHitAssign(t) ==
    /\ threads[t].pc = "HitAssign"
    /\ current_obj_files' = Some(threads[t].cached[1]["obj_files"])
    /\ threads' = [threads EXCEPT ![t] = Enter(@, "HitFinish")]
    /\ UNCHANGED <<model_folder, input_file, use_cache, is_processing, start_btn, cache,
                   engine_loaded, current_volume_data, runs, events, delivery>>
    /\ UNCHANGED <<cacheVars, volVars, meshVars, sendVars>>

\* engine construction and initialize when not loaded, then engine.predict
WPredict(t) ==
    /\ threads[t].pc = "Predicting"
    /\ \/ \* the model cannot be loaded
          /\ ~engine_loaded
          /\ threads' = [threads EXCEPT ![t] = FailWith(@, "initialize")]
          /\ UNCHANGED <<engine_loaded, files>>
       \/ \* the predictor raises
          /\ engine_loaded' = TRUE
          /\ threads' = [threads EXCEPT ![t] =
                           [FailWith(@, "predict") EXCEPT !.calls = @ \cup {"predict"}]]
          /\ UNCHANGED files
       \/ /\ engine_loaded' = TRUE
          /\ files' = files \cup {PredPath(input_file)}
          /\ threads' = [threads EXCEPT ![t] =
                           [Enter(@, "Analyzing") EXCEPT
                               !.pred_path = Some(PredPath(input_file)),
                               !.calls = @ \cup {"predict"}]]
    /\ UNCHANGED <<model_folder, input_file, use_cache, is_processing, start_btn, cache,
                   current_volume_data, current_obj_files, runs, events, delivery>>
    /\ UNCHANGED <<index_file, cache_data, clock, c_ops, volVars, meshVars, sendVars>>

\* self.current_volume_data = VolumeCalculator.calculate(pred_path)
WAnalyze(t) ==
    /\ threads[t].pc = "Analyzing"
    /\ \/ /\ threads[t].pred_path[1] \in files
          /\ current_volume_data' = Some(Metrics(threads[t].pred_path[1]))
          /\ threads' = [threads EXCEPT ![t] = Enter(@, "MeshBuilding")]
       \/ \* nib.load raises: the file is gone or cannot be read
          /\ threads' = [threads EXCEPT ![t] = FailWith(@, "calculate")]
          /\ UNCHANGED current_volume_data
    /\ UNCHANGED <<model_folder, input_file, use_cache, is_processing, start_btn, cache,
                   engine_loaded, current_obj_files, runs, events, delivery>>
    /\ UNCHANGED <<cacheVars, volVars, meshVars, sendVars>>

\* self.current_obj_files = self.mesh_generator.generate(pred_path, unity_dir)
WMesh(t) ==
    /\ threads[t].pc = "MeshBuilding"
    /\ LET path == threads[t].pred_path[1] IN
       \/ /\ path \in files
          /\ \E good \in SUBSET MeshLabels(path) :
               /\ files' = files \cup {ObjPath(path[2], l) : l \in good}
               /\ current_obj_files' = Some(MeshLoop(MeshLabels(path), good, path))
          /\ threads' = [threads EXCEPT ![t] =
                           [Enter(@, "CacheWrite") EXCEPT !.calls = @ \cup {"generate"}]]
       \/ \* makedirs or nib.load raises
          /\ threads' = [threads EXCEPT ![t] =
                           [FailWith(@, "generate") EXCEPT !.calls = @ \cup {"generate"}]]
          /\ UNCHANGED <<files, current_obj_files>>
    /\ UNCHANGED <<model_folder, input_file, use_cache, is_processing, start_btn, cache,
                   engine_loaded, current_volume_data, runs, events, delivery>>
    /\ UNCHANGED <<index_file, cache_data, clock, c_ops, volVars, meshVars, sendVars>>

\* if self.use_cache.get() and self.cache: self.cache.save(...)
WCacheWrite(t) ==
    /\ threads[t].pc = "CacheWrite"
    /\ IF use_cache /\ cache # None
       THEN /\ CacheSave(input_file, [prediction_path |-> threads[t].pred_path[1],
                                      obj_files |-> current_obj_files[1]])
            /\ threads' = [threads EXCEPT ![t] =
                             [Enter(@, "Done") EXCEPT !.calls = @ \cup {"save"}]]
       ELSE /\ threads' = [threads EXCEPT ![t] = Enter(@, "Done")]
            /\ UNCHANGED <<cache_data, index_file, clock>>
    /\ UNCHANGED <<model_folder, input_file, use_cache, is_processing, start_btn, cache,
                   engine_loaded, current_volume_data, current_obj_files, runs, events,
                   delivery>>
    /\ UNCHANGED <<files, c_ops, volVars, meshVars, sendVars>>

\* _finish, called at the end of _handle_cached_result and of _run_prediction
WFinish(t) ==
    /\ threads[t].pc \in {"HitFinish", "Done", "Failed"}
    /\ is_processing' = FALSE
    /\ start_btn' = "normal"
    /\ threads' = [threads EXCEPT ![t] = [IdleThread EXCEPT !.pc = "finished"]]
    /\ UNCHANGED <<model_folder, input_file, use_cache, cache, engine_loaded,
                   current_volume_data, current_obj_files, runs, events, delivery>>
    /\ UNCHANGED <<cacheVars, volVars, meshVars, sendVars>>

\* someone removes a mesh or label-volume file
DeleteFile(f) ==
    /\ f \in files
    /\ events < MaxEvents
    /\ events' = events + 1
    /\ files' = files \ {f}
    /\ UNCHANGED <<model_folder, input_file, use_cache, is_processing, start_btn, cache,
                   engine_loaded, current_volume_data, current_obj_files, threads, runs,
                   delivery>>
    /\ UNCHANGED <<index_file, cache_data, clock, c_ops, volVars, meshVars, sendVars>>

\* _init_variables and _init_components
AppStart ==
    /\ model_folder = ""
    /\ input_file = ""
    /\ use_cache = TRUE
    /\ is_processing = FALSE
    /\ start_btn = "normal"
    /\ cache = None
    /\ engine_loaded = FALSE
    /\ current_volume_data = Nothing
    /\ current_obj_files = Nothing
    /\ threads = [t \in 1..MaxEvents |-> IdleThread]
    /\ runs = 0
    /\ events = 0
    /\ delivery = Nothing

AppIdle == AppStart

\* the index an earlier session left: a.nii processed, both meshes written
PriorEntry ==
    [prediction_path |-> PredPath("a"),
     obj_files |-> <<PyPair(LIVER_LABEL, ObjPath("a", LIVER_LABEL)),
                     PyPair(TUMOR_LABEL, ObjPath("a", TUMOR_LABEL))>>]
PriorIndex == SavedData(EmptyDict, "a", PriorEntry, 0)
MalformedFile == [kind |-> "malformed", data |-> EmptyDict]

\* the disk at program start: nothing yet, an unreadable index, or the index
\* and the files of an earlier session
DiskStart ==
    \/ index_file = AbsentFile /\ files = {} /\ clock = 0
    \/ index_file = MalformedFile /\ files = {} /\ clock = 0
    \/ /\ index_file = JsonFile(PriorIndex)
       /\ files = {PredPath("a")} \cup ListedFiles(PriorEntry)
       /\ clock = 1

-----------------------------------------------------------------------------
(* SpecCache: a PredictionCache under arbitrary calls, with mesh files      *)
(* deleted and rewritten behind its back                                    *)

\* the mesh lists and result dicts handed to save
CachePairs == {PyPair(LIVER_LABEL, ObjPath("a", LIVER_LABEL)),
               PyPair(TUMOR_LABEL, ObjPath("a", TUMOR_LABEL))}
CacheMeshLists == UNION {[1..n -> CachePairs] : n \in 0..MaxMeshes}
CacheResults ==
    {[prediction_path |-> PredPath("a"), obj_files |-> l] : l \in CacheMeshLists}
    \cup {[prediction_path |-> PredPath("a")]}
CacheFiles == {p.path : p \in CachePairs} \cup {PredPath("a")}

NoOp == [op |-> "none", path |-> None, result |-> EmptyDict, before |-> 0,
         now |-> 0, ok |-> FALSE, file |-> None]
Push(ops, o) == IF Len(ops) < 2 THEN Append(ops, o) ELSE <<ops[2], o>>

CSave(image_path, result) ==
    /\ clock < MaxSaves
    /\ CacheSave(image_path, result)
    /\ c_ops' = Push(c_ops, [NoOp EXCEPT !.op = "save", !.path = image_path,
                                         !.result = result,
                                         !.before = Cardinality(DOMAIN cache_data),
                                         !.now = clock,
                                         !.ok = ListedFiles(result) \subseteq files])
    /\ UNCHANGED <<files, volVars, meshVars, sendVars, appVars>>

CClear ==
    /\ CacheClear
    /\ c_ops' = Push(c_ops, [NoOp EXCEPT !.op = "clear"])
    /\ UNCHANGED <<files, volVars, meshVars, sendVars, appVars>>

\* a file is removed from the disk by someone else
CDelete(f) ==
    /\ f \in files
    /\ files' = files \ {f}
    /\ c_ops' = Push(c_ops, [NoOp EXCEPT !.op = "delete", !.file = f])
    /\ UNCHANGED <<index_file, cache_data, clock, volVars, meshVars, sendVars, appVars>>

\* a file is written again
CCreate(f) ==
    /\ f \notin files
    /\ files' = files \cup {f}
    /\ c_ops' = Push(c_ops, [NoOp EXCEPT !.op = "create", !.file = f])
    /\ UNCHANGED <<index_file, cache_data, clock, volVars, meshVars, sendVars, appVars>>

CacheInit ==
    /\ files = CacheFiles
    /\ index_file = AbsentFile
    /\ cache_data = EmptyDict
    /\ clock = 0
    /\ c_ops = <<>>

CacheNext ==
    \/ \E img \in Images, r \in CacheResults : CSave(img, r)
    \/ CClear
    \/ \E f \in CacheFiles : CDelete(f)
    \/ \E f \in CacheFiles : CCreate(f)

CacheSpecInit == CacheInit /\ VolIdle /\ MeshIdle /\ SendIdle /\ AppIdle

SpecCache == CacheSpecInit /\ [][CacheNext]_vars

-----------------------------------------------------------------------------
(* Claims on the cache *)

LastOp == c_ops[Len(c_ops)]

\* C2: is_cached(path) is true immediately after save(path, entry) when every
\* mesh file the entry lists exists, and deleting one of the listed mesh files
\* right afterwards makes is_cached(path) false.
C2_SaveThenCached ==
    /\ (Len(c_ops) >= 1 /\ LastOp.op = "save" /\ LastOp.ok)
          => IsCached(cache_data, files, LastOp.path)
    /\ (/\ Len(c_ops) = 2
        /\ c_ops[1].op = "save" /\ c_ops[1].ok
        /\ c_ops[2].op = "delete"
        /\ c_ops[2].file \in ListedFiles(c_ops[1].result))
          => ~IsCached(cache_data, files, c_ops[1].path)

\* a save of a two-mesh entry with both files present, then the second deleted
C2_Witness ==
    /\ Len(c_ops) = 2
    /\ c_ops[1].op = "save" /\ c_ops[1].ok
    /\ Len(DictGet(c_ops[1].result, "obj_files", <<>>)) = 2
    /\ c_ops[2].op = "delete"
    /\ c_ops[2].file = c_ops[1].result["obj_files"][2].path
    /\ c_ops[2].file # c_ops[1].result["obj_files"][1].path

\* C5: two saves in a row of the same image with the same entry content leave
\* one entry under the image's hash (the index grew by at most one over both
\* calls) and the stored timestamp is the second call's.
C5_SaveTwice ==
    (/\ Len(c_ops) = 2
     /\ c_ops[1].op = "save" /\ c_ops[2].op = "save"
     /\ GetHash(c_ops[1].path) = GetHash(c_ops[2].path)
     /\ c_ops[1].result = c_ops[2].result)
      => /\ Cardinality(DOMAIN cache_data) <= c_ops[1].before + 1
         /\ Cardinality({k \in DOMAIN cache_data :
                cache_data[k]["timestamp"] \in {c_ops[1].now, c_ops[2].now}}) = 1
         /\ GetHash(c_ops[2].path) \in DOMAIN cache_data
         /\ cache_data[GetHash(c_ops[2].path)]
              = DictSet(c_ops[2].result, "timestamp", c_ops[2].now)

\* the same image saved twice with the same entry, the index empty before
C5_Witness ==
    /\ Len(c_ops) = 2
    /\ c_ops[1].op = "save" /\ c_ops[2].op = "save"
    /\ c_ops[1].path = c_ops[2].path
    /\ c_ops[1].result = c_ops[2].result
    /\ c_ops[1].before = 0
    /\ Cardinality(DOMAIN cache_data) = 1

\* both indexes are empty and no image is reported cached
Emptied ==
    /\ cache_data = EmptyDict
    /\ index_file = JsonFile(EmptyDict)
    /\ \A img \in Images : ~IsCached(cache_data, files, img)

\* C15: after clear() the in-memory index and the persisted index are both
\* empty and is_cached is false for every image, and this stays so until the
\* next save, whatever calls came before.
C15_Clear ==
    [][/\ (LastOp'.op = "clear") => Emptied'
       /\ (Emptied /\ LastOp'.op # "save") => Emptied']_vars

\* clear right after a save whose entry was reported cached
C15_Witness ==
    /\ Len(c_ops) = 2
    /\ c_ops[1].op = "save" /\ c_ops[1].ok
    /\ ListedFiles(c_ops[1].result) # {}
    /\ ListedFiles(c_ops[1].result) \subseteq files
    /\ c_ops[2].op = "clear"

\* the entry the last call, a save, stored
LastSaved == DictSet(LastOp.result, "timestamp", LastOp.now)

\* C21: the cache key depends only on the bytes of the image file: two paths
\* whose files have the same content give the same is_cached and get results,
\* a save through one of them is the entry get returns through the other, and
\* a save never becomes the entry of a file with a different digest.
C21_ContentKey ==
    /\ \A p, q \in Images :
          ImageBytes(p) = ImageBytes(q) =>
              /\ IsCached(cache_data, files, p) = IsCached(cache_data, files, q)
              /\ CacheGet(cache_data, p) = CacheGet(cache_data, q)
    /\ (Len(c_ops) >= 1 /\ LastOp.op = "save") =>
          \A q \in Images :
              /\ ImageBytes(q) = ImageBytes(LastOp.path)
                    => /\ CacheGet(cache_data, q) = Some(LastSaved)
                       /\ LastOp.ok => IsCached(cache_data, files, q)
              /\ GetHash(q) # GetHash(LastOp.path)
                    => CacheGet(cache_data, q) # Some(LastSaved)

\* c.nii saved, then a.nii: its copy b.nii is reported cached with a's entry
C21_Witness ==
    /\ Len(c_ops) = 2
    /\ c_ops[1].op = "save" /\ c_ops[1].path = "c"
    /\ c_ops[2].op = "save" /\ c_ops[2].path = "a" /\ c_ops[2].ok
    /\ c_ops[1].result = c_ops[2].result
    /\ IsCached(cache_data, files, "b")
    /\ CacheGet(cache_data, "b") = Some(LastSaved)
    /\ CacheGet(cache_data, "c") # CacheGet(cache_data, "b")

\* C26 as stated: after a save or a clear, a cache constructed from the
\* persisted index starts with an index equal to the one in memory.
C26_AsStated ==
    (Len(c_ops) >= 1 /\ LastOp.op \in {"save", "clear"})
      => LoadIndex(index_file) = Some(cache_data)

\* two mesh lists hold the same labels and paths in the same order
SamePairs(l, m) ==
    /\ Len(l) = Len(m)
    /\ \A i \in 1..Len(l) : l[i].label = m[i].label /\ l[i].path = m[i].path

\* C26, amended: after every save or clear the persisted index is the JSON
\* form of the in-memory index: the same keys, and under each key the same
\* prediction path and timestamp and the same (label, path) pairs in the same
\* order, each pair read back as a two-element list.
C26_PersistedIndex ==
    /\ (Len(c_ops) >= 1 /\ LastOp.op \in {"save", "clear"}) => index_file.kind = "json"
    /\ (index_file.kind = "json") =>
          LET loaded == LoadIndex(index_file)[1] IN
          /\ DOMAIN loaded = DOMAIN cache_data
          /\ \A k \in DOMAIN cache_data :
                /\ DOMAIN loaded[k] = DOMAIN cache_data[k]
                /\ \A f \in DOMAIN loaded[k] \ {"obj_files"} :
                      loaded[k][f] = cache_data[k][f]
                /\ "obj_files" \in DOMAIN loaded[k] =>
                      /\ SamePairs(loaded[k]["obj_files"], cache_data[k]["obj_files"])
                      /\ \A i \in 1..Len(loaded[k]["obj_files"]) :
                            loaded[k]["obj_files"][i].py = "list"

\* two images saved with their meshes: the index read back has both entries,
\* and is not the in-memory index, whose pairs are tuples
C26_Witness ==
    /\ Len(c_ops) = 2
    /\ c_ops[1].op = "save" /\ c_ops[2].op = "save"
    /\ Cardinality(DOMAIN cache_data) = 2
    /\ \A k \in DOMAIN cache_data : ListedFiles(cache_data[k]) # {}
    /\ LoadIndex(index_file) = Some(JsonIndex(cache_data))
    /\ LoadIndex(index_file) # Some(cache_data)

\* C22: is_cached(path) is true exactly when the content hash of the file is
\* in the index and every mesh path the entry lists exists; whether the
\* entry's prediction output file exists makes no difference, and an entry
\* with an empty mesh list is always valid.
C22_IsCachedExact ==
    \A p \in Images :
        LET key == GetHash(p) IN
        /\ IsCached(cache_data, files, p)
              <=> /\ key \in DOMAIN cache_data
                  /\ ListedFiles(cache_data[key]) \subseteq files
        /\ key \in DOMAIN cache_data =>
              /\ IsCached(cache_data, files \cup {cache_data[key]["prediction_path"]}, p)
                    = IsCached(cache_data, files \ {cache_data[key]["prediction_path"]}, p)
              /\ ListedFiles(cache_data[key]) = {} => IsCached(cache_data, files, p)

\* an entry with two meshes is cached although its prediction file is gone
C22_Witness ==
    /\ Len(c_ops) = 2
    /\ c_ops[1].op = "save" /\ c_ops[1].path = "a"
    /\ Cardinality(ListedFiles(c_ops[1].result)) = 2
    /\ c_ops[2].op = "delete"
    /\ c_ops[2].file = c_ops[1].result["prediction_path"]
    /\ IsCached(cache_data, files, "a")

-----------------------------------------------------------------------------
(* SpecVolume and the claims on the metrics *)

VCalculate ==
    /\ v_result = Nothing
    /\ v_result' = Some(Calculate(v_data, v_spacing, LIVER_LABEL, TUMOR_LABEL))
    /\ UNCHANGED <<v_data, v_spacing>>
    /\ UNCHANGED <<cacheVars, meshVars, sendVars, appVars>>

VolNext == VCalculate

VolSpecInit == VolInit /\ CacheInit /\ MeshIdle /\ SendIdle /\ AppIdle

SpecVolume == VolSpecInit /\ [][VolNext]_vars

\* C9 as stated: one liver voxel at spacing (1,1,1) gives liver_volume_ml
\* = 0.001.
C9_AsStated ==
    (/\ v_result # Nothing
     /\ v_spacing = <<1, 1, 1>>
     /\ Cardinality({v \in Voxels : v_data[v] = LIVER_LABEL}) = 1)
      => v_result[1].liver_volume_ml = 1

\* C9, amended: one liver voxel at spacing (1,1,1) gives liver_volume_ml = 0.0
\* (0.001 ml rounded to two decimals).
C9_OneLiverVoxel ==
    (/\ v_result # Nothing
     /\ v_spacing = <<1, 1, 1>>
     /\ Cardinality({v \in Voxels : v_data[v] = LIVER_LABEL}) = 1)
      => v_result[1].liver_volume_ml = 0

\* calculate has returned for a volume with one liver voxel and spacing (1,1,1)
C9_Witness ==
    /\ v_result # Nothing
    /\ v_spacing = <<1, 1, 1>>
    /\ Cardinality({v \in Voxels : v_data[v] = LIVER_LABEL}) = 1
    /\ Cardinality({v \in Voxels : v_data[v] # 0}) = 1

\* C10: on an all-background volume with positive spacing calculate returns
\* liver_volume_ml = 0.0, tumor_count = 0, no tumors and
\* total_tumor_volume_ml = 0.0.
C10_AllBackground ==
    (/\ v_result # Nothing
     /\ \A v \in Voxels : v_data[v] = 0
     /\ \A i \in 1..3 : v_spacing[i] > 0)
      => /\ v_result[1].liver_volume_ml = 0
         /\ v_result[1].tumor_count = 0
         /\ v_result[1].tumors = <<>>
         /\ v_result[1].total_tumor_volume_ml = 0

\* calculate has returned for an all-background volume of spacing (2,2,2)
C10_Witness ==
    /\ v_result # Nothing
    /\ v_data = Background
    /\ v_spacing = <<2, 2, 2>>

\* two voxels share a face: they differ by one step along exactly one axis
SharesFace(u, v) ==
    \E i \in 1..3 :
        /\ Abs(u[i] - v[i]) = 1
        /\ \A j \in (1..3) \ {i} : u[j] = v[j]

\* no voxel of the mask outside S shares a face with a voxel of S
ClosedIn(S, mask) == \A u \in S, w \in mask \ S : ~SharesFace(u, w)

\* the face-adjacency components of a mask: the smallest non-empty closed sets
Components(mask) ==
    {S \in SUBSET mask :
        /\ S # {}
        /\ ClosedIn(S, mask)
        /\ \A T \in SUBSET S : (T # {} /\ T # S) => ~ClosedIn(T, mask)}

TumorMask == {v \in Voxels : v_data[v] = TUMOR_LABEL}

\* C11: the tumors list has one entry per face-adjacency component of the
\* tumor mask, tumor_count is its length and the ids are 1, 2, ... in list
\* order; two tumor voxels that share no face give tumor_count = 2 with ids
\* 1 and 2.
C11_Components ==
    (v_result # Nothing) =>
        LET r == v_result[1] IN
        /\ Len(r.tumors) = Cardinality(Components(TumorMask))
        /\ r.tumor_count = Len(r.tumors)
        /\ \A i \in 1..Len(r.tumors) : r.tumors[i].id = i
        /\ (/\ Cardinality(TumorMask) = 2
            /\ \A u, w \in TumorMask : ~SharesFace(u, w))
              => /\ r.tumor_count = 2
                 /\ r.tumors[1].id = 1
                 /\ r.tumors[2].id = 2

\* calculate has returned for two tumor voxels that touch only at an edge
C11_Witness ==
    /\ v_result # Nothing
    /\ TumorMask = {<<0, 0, 0>>, <<0, 1, 1>>}
    /\ v_result[1].tumor_count = 2

\* C12: calculate rejects a volume whose spacing has a zero or negative
\* component: it fails with an invalid-input error and returns no metrics.
C12_RejectsSpacing ==
    (\E i \in 1..3 : v_spacing[i] <= 0) => v_result = Nothing

RECURSIVE SumVolumes(_)
\* the sum of the volume_ml values of a tumors list
SumVolumes(tumors) ==
    IF tumors = <<>> THEN 0 ELSE Head(tumors).volume_ml + SumVolumes(Tail(tumors))

\* C19: total_tumor_volume_ml is the sum of the already rounded per-tumor
\* volume_ml values, rounded to 2 decimals, and 0.0 when there are no tumors.
C19_SumOfRounded ==
    (v_result # Nothing) =>
        LET r == v_result[1] IN
        /\ r.total_tumor_volume_ml = Round2(SumVolumes(r.tumors))
        /\ (r.tumors = <<>>) => r.total_tumor_volume_ml = 0

\* two tumors whose rounded volumes add up to less than the rounded volume of
\* all tumor voxels
C19_Witness ==
    /\ v_result # Nothing
    /\ Len(v_result[1].tumors) = 2
    /\ v_result[1].total_tumor_volume_ml
         # Round2(Cardinality(TumorMask) * v_spacing[1] * v_spacing[2] * v_spacing[3])

\* position in the scan of the first voxel of a component
FirstVoxel(S) == CHOOSE n \in {Raster(v) : v \in S} : \A v \in S : n <= Raster(v)

\* the component that is discovered i-th
ComponentAt(i) ==
    CHOOSE S \in Components(TumorMask) :
        Cardinality({T \in Components(TumorMask) : FirstVoxel(T) < FirstVoxel(S)}) = i - 1

\* C20: with positive spacing (sx, sy, sz), liver_volume_ml is the number of
\* liver-label voxels times sx*sy*sz/1000 rounded to 2 decimals and each
\* tumor's volume_ml is the voxel count of its component times sx*sy*sz/1000
\* rounded to 2 decimals; voxels of other labels count for neither.
C20_VolumeFormula ==
    (v_result # Nothing /\ \A k \in 1..3 : v_spacing[k] > 0) =>
        LET r  == v_result[1]
            mm == v_spacing[1] * v_spacing[2] * v_spacing[3]
        IN  /\ r.liver_volume_ml
                 = Round2(Cardinality({v \in Voxels : v_data[v] = LIVER_LABEL}) * mm)
            /\ Len(r.tumors) = Cardinality(Components(TumorMask))
            /\ \A i \in 1..Len(r.tumors) :
                  r.tumors[i].volume_ml = Round2(Cardinality(ComponentAt(i)) * mm)

\* a liver voxel next to a voxel of another organ, spacing (2,2,2): 0.01 ml
C20_Witness ==
    /\ v_result # Nothing
    /\ v_spacing = <<2, 2, 2>>
    /\ v_data[<<0, 0, 0>>] = LIVER_LABEL
    /\ v_data[<<0, 0, 1>>] = 1
    /\ v_result[1].liver_volume_ml = 10

-----------------------------------------------------------------------------
(* SpecMesh: MeshGenerator.generate on every bounded label volume, with any  *)
(* set of labels failing inside the loop and either step before it failing   *)

\* the file generate is called on
MeshPath == PredPath("a")

\* generate(nifti_path, output_dir): os.makedirs and nib.load raise to the
\* caller; inside the loop a label that fails is logged and skipped, and its
\* export may leave a file behind
MGenerate ==
    /\ m_pc = "call"
    /\ IF m_io # "ok"
       THEN /\ m_pc' = "raised"
            /\ UNCHANGED <<m_result, files>>
       ELSE /\ m_pc' = "returned"
            /\ m_result' = MeshLoop(Labels(m_data), m_good, MeshPath)
            /\ \E partial \in SUBSET (Labels(m_data) \ m_good) :
                 files' = files \cup {ObjPath(MeshPath[2], l) : l \in m_good \cup partial}
    /\ UNCHANGED <<m_data, m_good, m_io>>
    /\ UNCHANGED <<index_file, cache_data, clock, c_ops, volVars, sendVars, appVars>>

MeshInit ==
    /\ m_data \in Volumes
    /\ m_good \in SUBSET {m_data[v] : v \in Voxels}
    /\ 0 \notin m_good
    /\ m_io \in {"ok", "makedirs", "load"}
    /\ m_pc = "call"
    /\ m_result = <<>>
    /\ files = {MeshPath}
    /\ index_file = AbsentFile
    /\ cache_data = EmptyDict
    /\ clock = 0
    /\ c_ops = <<>>

MeshNext == MGenerate

MeshSpecInit == MeshInit /\ VolIdle /\ SendIdle /\ AppIdle

SpecMesh == MeshSpecInit /\ [][MeshNext]_vars

\* the non-zero labels present in the volume
Present == {m_data[v] : v \in Voxels} \ {0}

\* the labels of the returned pairs, in list order
ResultLabels == [i \in 1..Len(m_result) |-> m_result[i].label]

\* C13: a label whose extraction, smoothing or export fails does not abort
\* generate: every other non-zero label present is still processed, the failed
\* label is absent from the returned list and the call returns normally; the
\* call fails only on errors outside the loop (output directory, loading).
C13_LabelFailure ==
    /\ (m_pc = "raised") => m_io \in {"makedirs", "load"}
    /\ (m_pc \in {"returned", "raised"} /\ m_io = "ok") => m_pc = "returned"
    /\ (m_pc = "returned") =>
          \A l \in Present :
              (l \in m_good) <=> (\E i \in 1..Len(m_result) : ResultLabels[i] = l)

\* two labels present, the lower one fails and the higher one is returned
C13_Witness ==
    /\ m_pc = "returned"
    /\ Present = {1, TUMOR_LABEL}
    /\ m_good = {TUMOR_LABEL}
    /\ ResultLabels = <<TUMOR_LABEL>>

\* C14: the returned list is in strictly ascending label order, never
\* contains label 0, and holds exactly one (label, path) pair for each
\* non-zero label present whose extraction succeeded and none for a label
\* not present.
C14_Ascending ==
    (m_pc = "returned") =>
        /\ \A i \in 1..Len(m_result) - 1 : ResultLabels[i] < ResultLabels[i + 1]
        /\ \A i \in 1..Len(m_result) :
              /\ ResultLabels[i] # 0
              /\ ResultLabels[i] \in Present \cap m_good
              /\ m_result[i].path = ObjPath(MeshPath[2], ResultLabels[i])
        /\ \A l \in Present \cap m_good :
              Cardinality({i \in 1..Len(m_result) : ResultLabels[i] = l}) = 1

\* generate returned both meshes of a volume with liver and tumor
C14_Witness ==
    /\ m_pc = "returned"
    /\ Present = {LIVER_LABEL, TUMOR_LABEL}
    /\ ResultLabels = <<LIVER_LABEL, TUMOR_LABEL>>

-----------------------------------------------------------------------------
(* SpecSend and the claims on the delivery *)

SendInit ==
    /\ \E l \in SendLists, p \in Payloads : SendStart(l, p)
    /\ files \in SUBSET {ObjPath("a", LIVER_LABEL), ObjPath("a", TUMOR_LABEL)}
    /\ index_file = AbsentFile
    /\ cache_data = EmptyDict
    /\ clock = 0
    /\ c_ops = <<>>

SendNext ==
    \/ SConnect
    \/ SSendLen
    \/ SSendJson
    \/ SSendCount
    \/ SSendLabel
    \/ SReadFile
    \/ SSendSize
    \/ SSendData
    \/ SClose

SendSpecInit == SendInit /\ VolIdle /\ MeshIdle /\ AppIdle

SpecSend == SendSpecInit /\ [][SendNext]_vars

\* the unsigned integer four bytes of a stream spell, most significant first
U32At(stream, pos) ==
    ((stream[pos] * 256 + stream[pos + 1]) * 256 + stream[pos + 2]) * 256 + stream[pos + 3]

RECURSIVE BlocksAt(_, _, _)
\* from pos on the stream is one (label, length, bytes) block per asset, in
\* order, and then ends
BlocksAt(stream, pos, objs) ==
    IF objs = <<>> THEN pos = Len(stream) + 1
    ELSE LET data == ObjBytes(Head(objs).path)
         IN  /\ Len(stream) >= pos + 7 + Len(data)
             /\ U32At(stream, pos) = Head(objs).label
             /\ U32At(stream, pos + 4) = Len(data)
             /\ SubSeq(stream, pos + 8, pos + 7 + Len(data)) = data
             /\ BlocksAt(stream, pos + 8 + Len(data), Tail(objs))

\* C1: when send returns True the bytes written are the 4-byte big-endian
\* length of the UTF-8 JSON payload, the JSON bytes, the 4-byte big-endian
\* count N, then one (label, byte length, bytes) block per asset in input
\* order, and nothing else.
C1_Framing ==
    (s_out = Return(TRUE)) =>
        LET jb == JsonBytes(s_patient) IN
        /\ \A i \in 1..Len(s_sent) : s_sent[i] \in 0..255
        /\ Len(s_sent) >= Len(jb) + 8
        /\ U32At(s_sent, 1) = Len(jb)
        /\ SubSeq(s_sent, 5, 4 + Len(jb)) = jb
        /\ U32At(s_sent, 5 + Len(jb)) = Len(s_obj_files)
        /\ BlocksAt(s_sent, 9 + Len(jb), s_obj_files)

\* send returned True for two assets and a payload with a non-ASCII character
C1_Witness ==
    /\ s_out = Return(TRUE)
    /\ Len(s_obj_files) = 2
    /\ s_obj_files[1].path # s_obj_files[2].path
    /\ s_patient.n = <<233>>

\* C4: send never raises; it returns False when the connection is refused or
\* any error occurs at connect, while reading a mesh file or while writing,
\* and returns True only if the payload frame, the count and every asset
\* frame were written without error.
C4_NeverRaises ==
    /\ s_out.kind # "raise"
    /\ (s_pc = "returned") =>
          /\ s_out.kind = "return"
          /\ (s_exc # None) => s_out.value = FALSE
          /\ (s_out.value = TRUE) =>
                /\ s_exc = None
                /\ s_frames = 3 + 3 * Len(s_obj_files)
                /\ \A i \in 1..Len(s_obj_files) : s_obj_files[i].path \in files

\* nothing listens: the connection is refused and send returns False
C4_Witness ==
    /\ s_pc = "returned"
    /\ s_exc = "ConnectionRefusedError"
    /\ s_out = Return(FALSE)
    /\ s_sent = <<>>

\* C23: send keeps each asset whole: when send has returned, with True or
\* False, whatever was written after the count is a run of complete (label,
\* length, bytes) blocks of the first assets, so the stream never ends with a
\* label that has no length and bytes after it.
C23_AssetAtomic ==
    (s_pc = "returned") =>
        LET header == 8 + Len(JsonBytes(s_patient)) IN
        Len(s_sent) > header =>
            \E n \in 1..Len(s_obj_files) :
                BlocksAt(s_sent, header + 1, SubSeq(s_obj_files, 1, n))

\* C27: every connection send opened is closed when send has returned, on
\* the success path and on every failure path.
C27_ConnectionClosed == (s_pc = "returned") => s_sock # "connected"

-----------------------------------------------------------------------------
(* Spec: the application, and the claims on the orchestration *)

Init ==
    /\ AppStart
    /\ DiskStart
    /\ cache_data = EmptyDict
    /\ c_ops = <<>>
    /\ VolIdle
    /\ MeshIdle
    /\ SendIdle

Next ==
    \/ BrowseModel
    \/ \E img \in AppImages : BrowseImage(img)
    \/ ToggleCache
    \/ OnPredict
    \/ OnStop
    \/ OnSendVr
    \/ \E t \in 1..MaxEvents : WCacheCheck(t)
    \/ \E t \in 1..MaxEvents : WHitLoad(t)
    \/ \E t \in 1..MaxEvents : WHitAssign(t)
    \/ \E t \in 1..MaxEvents : WPredict(t)
    \/ \E t \in 1..MaxEvents : WAnalyze(t)
    \/ \E t \in 1..MaxEvents : WMesh(t)
    \/ \E t \in 1..MaxEvents : WCacheWrite(t)
    \/ \E t \in 1..MaxEvents : WFinish(t)
    \/ \E f \in files : DeleteFile(f)

Spec == Init /\ [][Next]_vars

\* the next statement of worker thread t
Worker(t) ==
    \/ WCacheCheck(t)
    \/ WHitLoad(t)
    \/ WHitAssign(t)
    \/ WPredict(t)
    \/ WAnalyze(t)
    \/ WMesh(t)
    \/ WCacheWrite(t)
    \/ WFinish(t)

\* the application over MaxLiveEvents outside events
LiveNext ==
    \/ BrowseModel
    \/ \E img \in AppImages : BrowseImage(img)
    \/ ToggleCache
    \/ events < MaxLiveEvents /\ OnPredict
    \/ events < MaxLiveEvents /\ OnStop
    \/ events < MaxLiveEvents /\ OnSendVr
    \/ \E t \in 1..MaxLiveEvents : Worker(t)
    \/ events < MaxLiveEvents /\ \E f \in files : DeleteFile(f)

\* the application with every stage terminating: a worker thread that can
\* take its next step takes it
SpecLive ==
    Init /\ [][LiveNext]_vars /\ \A t \in 1..MaxLiveEvents : WF_vars(Worker(t))

-----------------------------------------------------------------------------
(* Claims on the application *)

\* the worker threads whose _run_prediction has begun and not yet returned
Workers == {t \in 1..MaxEvents : InFlight(t)}

\* a worker at the last statement of its run, about to call _finish
AtEnd(t) == threads[t].pc \in {"HitFinish", "Done", "Failed"}

\* C3: for any sequence of Predict and Stop events at most one
\* _run_prediction worker is in flight at any time; no second run starts
\* while an earlier worker has not finished.
C3_OneWorker == Cardinality(Workers) <= 1

\* C6: in a run whose cache check reported a hit, the predictor, the mesh
\* extraction and the cache save are never called, and at the end of the run
\* current_obj_files equals the mesh list of the image's cache entry, element
\* for element and in order.
C6_HitRun ==
    \A t \in 1..MaxEvents :
        threads[t].hit =>
            /\ threads[t].calls = {}
            /\ AtEnd(t) =>
                  current_obj_files
                    = Some(CacheGet(cache_data, threads[t].image)[1]["obj_files"])

C17_MetricsFailure ==
    /\ [](\A t \in 1..MaxEvents :
            threads[t].error = "calculate" =>
                /\ threads[t].pc = "Failed"
                /\ threads[t].failed
                /\ threads[t].calls \cap {"generate", "save"} = {})
    /\ [][\A t \in 1..MaxEvents :
            threads[t].pc = "Failed" => threads'[t].pc \in {"Failed", "finished"}]_vars

\* calculate raised on the label volume the predictor had just written
C17_Witness ==
    \E t \in 1..MaxEvents :
        /\ threads[t].error = "calculate"
        /\ threads[t].calls = {"predict"}
        /\ threads[t].pc = "Failed"

\* C18: a delivery (Send to VR) starts only after a run has reached CacheHit
\* or CacheWrite, and never while a run is in CacheCheck, Predicting,
\* Analyzing or MeshBuilding.
C18_DeliveryOrder ==
    (delivery # Nothing) =>
        /\ runs >= 1
        /\ delivery[1].stages
              \cap {"CacheCheck", "Predicting", "Analyzing", "MeshBuilding"} = {}

\* the index the cache object holds; the object is built from the persisted
\* index at its first use
MemIndex == IF cache = None THEN LoadIndex(index_file) ELSE Some(cache_data)

\* worker t makes the cache write that ends a miss run
MissWrite(t) ==
    /\ threads[t].pc = "CacheWrite"
    /\ threads'[t].pc = "Done"
    /\ "save" \in threads'[t].calls
    /\ {"predict", "generate"} \subseteq threads[t].calls
    /\ ~threads[t].hit
    /\ ~threads[t].failed
    /\ use_cache

\* C24: the cache index, in memory and persisted, changes only through the
\* cache write at the end of a miss run whose prediction, analysis and mesh
\* building completed without error, with cache use enabled (the application
\* never calls clear); every step of a run that hit the cache or that failed
\* in an earlier stage leaves both unchanged.
C24_IndexFrame ==
    [][/\ (MemIndex' # MemIndex \/ index_file' # index_file)
             => \E t \in 1..MaxEvents : MissWrite(t)
       /\ \A t \in 1..MaxEvents :
             (/\ threads'[t] # threads[t]
              /\ \/ threads[t].hit \/ threads'[t].hit
                 \/ threads[t].failed \/ threads'[t].failed)
               => (MemIndex' = MemIndex /\ index_file' = index_file)]_vars

\* the second run of the session, a miss run, has written its entry next to
\* the one that was there
C24_Witness ==
    /\ \E t \in 1..MaxEvents :
          /\ threads[t].pc = "Done"
          /\ "save" \in threads[t].calls
    /\ runs >= 2
    /\ index_file = JsonFile(cache_data)
    /\ Cardinality(DOMAIN cache_data) = 2

\* C25: whenever Send to VR would start a delivery (a non-empty mesh list and
\* metrics are present), the metrics are those of the image every mesh of the
\* list was built from.
C25_SameImage ==
    (/\ current_obj_files # Nothing
     /\ current_obj_files[1] # <<>>
     /\ current_volume_data # Nothing)
      => \A i \in 1..Len(current_obj_files[1]) :
            current_volume_data[1]
              = Metrics(PredPath(current_obj_files[1][i].path[2]))

\* C28: provided each stage terminates, every started run returns the
\* application to idle: on the hit path, the miss path and every failure path
\* its worker reaches _finish, which resets is_processing and enables the
\* Predict button, so the busy state never lasts forever.
C28_ReturnsToIdle ==
    /\ \A t \in 1..MaxLiveEvents :
          InFlight(t) ~> (/\ threads[t].pc = "finished"
                          /\ ~is_processing
                          /\ start_btn = "normal")
    /\ is_processing ~> (~is_processing /\ start_btn = "normal")

\* two runs have ended, the second a miss run that wrote its entry, and the
\* application is idle again
C28_Witness ==
    /\ runs = MaxLiveEvents
    /\ \A t \in 1..MaxLiveEvents : threads[t].pc = "finished"
    /\ ~is_processing
    /\ start_btn = "normal"
    /\ Cardinality(DOMAIN cache_data) = 2

\* C29: an entry invalidated by a missing mesh file heals on reprocessing:
\* the run of that image, with cache use enabled, takes the miss path, and
\* when it completes with its meshes on disk its cache write puts the new
\* entry under the image's hash, the image is cached again and the index has
\* gained no key.
C29_Heals ==
    /\ [](\A t \in 1..MaxEvents : threads[t].stale => ~threads[t].hit)
    /\ [][\A t \in 1..MaxEvents :
            (/\ threads[t].stale
             /\ threads[t].pc = "CacheWrite"
             /\ threads'[t].pc = "Done"
             /\ "save" \in threads'[t].calls
             /\ \A i \in 1..Len(current_obj_files[1]) :
                   current_obj_files[1][i].path \in files)
              => /\ IsCached(cache_data', files', threads[t].image)
                 /\ cache_data'[GetHash(threads[t].image)]["timestamp"] = clock
                 /\ DOMAIN cache_data' = DOMAIN cache_data]_vars

\* C7: whenever a run ends through the cache-hit path, current_volume_data is
\* the metrics computed from the label-volume file recorded in the cache entry
\* of the image being processed.
C7_HitMetrics ==
    \A t \in 1..MaxEvents :
        threads[t].pc = "HitFinish" =>
            current_volume_data
              = Some(Metrics(CacheGet(cache_data, threads[t].image)[1]["prediction_path"]))

\* C8: after Stop is clicked while a run is in a stage, the worker starts no
\* further stage of that run (prediction, analysis, mesh building, cache
\* write).
C8_StopHonoured ==
    \A t \in 1..MaxEvents : ~threads[t].ran_after_stop

=============================================================================
